---- MODULE Spec2Model ----
(***************************************************************************)
(* A model of synapse/storage/deviceinbox.py (DeviceInboxStore): the       *)
(* to-device message queue.  The three tables are bags of rows (the schema *)
(* enforces no uniqueness), every runInteraction is one atomic database    *)
(* step, and every call of add_messages_to_device_inbox and of             *)
(* add_messages_from_remote_to_device_inbox is a small process:            *)
(*   reserve a stream id  ->  transaction  ->  resume after the yield.     *)
(* The stream id generator, the stream change caches and the devices table *)
(* are collaborators outside deviceinbox.py; they are modelled from their  *)
(* contracts.                                                              *)
(***************************************************************************)
EXTENDS Integers, Sequences, FiniteSets, Bags, TLC

\* ------------------------------------------------------------------ bounds
MaxCalls == 2          \* writer calls (enqueue / remote ingest) per behaviour

\* ------------------------------------------------------------------ inputs
Users == {"alice", "bob"}
DeviceIds == {"dev1", "dev2"}
Destinations == {"hs1", "hs2"}
Origins == {"serverA"}
MessageIds == {"msg-1", "msg-2"}
Times == {1000}
CallIds == 1..MaxCalls
Positions == 0..MaxCalls
Limits == {1, 2}

\* the devices table at start, and the devices that come and go
InitialDevices == {<<"alice", "dev1">>, <<"alice", "dev2">>, <<"bob", "dev1">>}
ChurnDevices == {<<"bob", "dev2">>}

EmptyMap == [x \in {} |-> x]

\* dicts of user_id -> dict of device_id -> message
L_none == EmptyMap
L_one == "alice" :> ("dev1" :> "p1")
L_two == "alice" :> ("dev1" :> "p1" @@ "dev2" :> "p2")
L_users == ("alice" :> ("dev1" :> "p2")) @@ ("bob" :> ("dev1" :> "p2" @@ "dev2" :> "p1"))
L_nodev == ("alice" :> ("dev1" :> "p1")) @@ ("bob" :> EmptyMap)

\* dicts of destination -> EDU
R_none == EmptyMap
R_one == "hs1" :> "p1"
R_two == "hs1" :> "p2" @@ "hs2" :> "p1"

\* the batches of the write path: <<local, remote>>
Batches == {<<L_none, R_none>>, <<L_one, R_none>>, <<L_two, R_one>>,
            <<L_users, R_two>>, <<L_nodev, R_one>>}
RemoteBatches == {L_one, L_users}

\* the batches used next to the trimmer
TrimBatches == {<<L_one, R_one>>, <<L_two, R_two>>}

\* the batches used next to the readers
SmallBatches == {<<L_one, R_one>>, <<L_two, R_none>>}
SmallRemoteBatches == {L_one}
SmallMessageIds == {"msg-1"}

\* the entities the trimmer and the readers are called for
TrimDevices == {<<"alice", "dev1">>}
TrimDestinations == {"hs1"}
ReadDevices == {<<"alice", "dev1">>}
ReadDestinations == {"hs1"}

\* ------------------------------------------------------------------ state
VARIABLES
    devices,                    \* devices table: set of <<user_id, device_id>>
    device_inbox,               \* bag of [user_id, device_id, stream_id, message_json]
    device_federation_outbox,   \* bag of [destination, stream_id, queued_ts, messages_json]
    device_federation_inbox,    \* bag of [origin, message_id, received_ts]
    id_gen_current,             \* _device_inbox_id_gen: highest id handed out
    id_gen_unfinished,          \* _device_inbox_id_gen: ids reserved and not yet released
    inbox_cache,                \* _device_inbox_stream_cache: user -> last change (0: none)
    outbox_cache,               \* _device_federation_outbox_stream_cache: destination -> last change
    calls,                      \* the writer calls, by call id
    rd                          \* the reader: its last read and the chain of reads it belongs to

vars == <<devices, device_inbox, device_federation_outbox,
          device_federation_inbox, id_gen_current, id_gen_unfinished,
          inbox_cache, outbox_cache, calls, rd>>

tables == <<device_inbox, device_federation_outbox, device_federation_inbox>>
id_gen == <<id_gen_current, id_gen_unfinished>>
caches == <<inbox_cache, outbox_cache>>

\* ------------------------------------------------------------------ ujson
\* ujson.dumps / ujson.loads on the (JSON object) payloads: the stored text
\* is not the payload, loads gives the payload back.
Dumps(p) == <<"json", p>>
Loads(j) == j[2]

\* ------------------------------------------------------------------ collaborators
Min(S) == CHOOSE x \in S : \A y \in S : x <= y
Max(S) == CHOOSE x \in S : \A y \in S : x >= y

\* StreamIdGenerator.get_current_token: every id up to it has been released.
get_current_token_of(current, unfinished) ==
    IF unfinished # {} THEN Min(unfinished) - 1 ELSE current
get_current_token == get_current_token_of(id_gen_current, id_gen_unfinished)

\* StreamChangeCache.entity_has_changed / has_entity_changed
entity_has_changed(cache, entity, stream_pos) ==
    [cache EXCEPT ![entity] = IF stream_pos > @ THEN stream_pos ELSE @]
has_entity_changed(cache, entity, stream_pos) == cache[entity] > stream_pos

\* the loops `for user_id in ...keys(): cache.entity_has_changed(user_id, stream_id)`
RECURSIVE mark_all(_, _, _)
mark_all(cache, entities, stream_pos) ==
    IF entities = {} THEN cache
    ELSE LET e == CHOOSE x \in entities : TRUE
         IN  mark_all(entity_has_changed(cache, e, stream_pos), entities \ {e}, stream_pos)

\* ------------------------------------------------------------------ SQL
\* the rows of a bag that satisfy a WHERE clause
Where(table, P(_)) == [r \in {x \in BagToSet(table) : P(x)} |-> CopiesIn(r, table)]

\* ORDER BY stream_id ASC: every order the engine may give rows of one stream_id
RECURSIVE OrderByStreamId(_)
OrderByStreamId(B) ==
    IF BagToSet(B) = {} THEN {<<>>}
    ELSE LET S == BagToSet(B)
             lo == Min({r.stream_id : r \in S})
         IN  UNION { { <<r>> \o t : t \in OrderByStreamId(B (-) SetToBag({r})) } :
                         r \in {x \in S : x.stream_id = lo} }

\* LIMIT n
Limit(s, n) == SubSeq(s, 1, IF Len(s) < n THEN Len(s) ELSE n)

\* ------------------------------------------------------------------ calls
NoCall == [kind |-> "none", pc |-> "idle", local |-> EmptyMap, remote |-> EmptyMap,
           origin |-> "", message_id |-> "", stream_id |-> 0, now_ms |-> 0,
           inserted |-> FALSE, dropped |-> {}, outcome |-> "running", result |-> 0]

NoRead == [op |-> "none", user_id |-> "", device_id |-> "", destination |-> "",
           last |-> 0, current |-> 0, limit |-> 0, status |-> "ok",
           pending |-> FALSE, fast |-> FALSE,
           positions |-> <<>>, rows |-> <<>>, messages |-> <<>>, stream_pos |-> 0,
           init_last |-> 0, reads |-> 0, acc |-> <<>>, stored |-> EmptyBag,
           visible |-> FALSE]

Init ==
    /\ devices = InitialDevices
    /\ device_inbox = EmptyBag
    /\ device_federation_outbox = EmptyBag
    /\ device_federation_inbox = EmptyBag
    /\ id_gen_current = 0
    /\ id_gen_unfinished = {}
    /\ inbox_cache = [u \in Users |-> 0]
    /\ outbox_cache = [d \in Destinations |-> 0]
    /\ calls = [c \in CallIds |-> NoCall]
    /\ rd = NoRead

\* Reserve on a generator that hands out the last id again while an earlier
\* id is unfinished
Reserve_reused(c, kind, local, remote, origin, message_id, now_ms) ==
    LET sid == IF id_gen_unfinished = {} THEN id_gen_current + 1 ELSE id_gen_current
    IN  /\ calls[c].kind = "none"
        /\ \A b \in CallIds : b < c => calls[b].kind # "none"
        /\ id_gen_current' = sid
        /\ id_gen_unfinished' = id_gen_unfinished \cup {sid}
        /\ calls' = [calls EXCEPT ![c] =
                        [NoCall EXCEPT !.kind = kind, !.pc = "reserved", !.local = local,
                                       !.remote = remote, !.origin = origin,
                                       !.message_id = message_id,
                                       !.stream_id = sid, !.now_ms = now_ms]]
        /\ UNCHANGED <<devices, tables, caches, rd>>

\* Reserve that takes no stream id for a batch with nothing in it
Reserve_skip_empty(c, kind, local, remote, origin, message_id, now_ms) ==
    LET empty == DOMAIN local = {} /\ DOMAIN remote = {}
        sid == IF empty THEN id_gen_current ELSE id_gen_current + 1
    IN  /\ calls[c].kind = "none"
        /\ \A b \in CallIds : b < c => calls[b].kind # "none"
        /\ id_gen_current' = sid
        /\ id_gen_unfinished' = IF empty THEN id_gen_unfinished
                                ELSE id_gen_unfinished \cup {sid}
        /\ calls' = [calls EXCEPT ![c] =
                        [NoCall EXCEPT !.kind = kind, !.pc = "reserved", !.local = local,
                                       !.remote = remote, !.origin = origin,
                                       !.message_id = message_id,
                                       !.stream_id = sid, !.now_ms = now_ms]]
        /\ UNCHANGED <<devices, tables, caches, rd>>

\* Reserve with the stream id released before the transaction runs
Reserve_unheld(c, kind, local, remote, origin, message_id, now_ms) ==
    /\ calls[c].kind = "none"
    /\ \A b \in CallIds : b < c => calls[b].kind # "none"
    /\ id_gen_current' = id_gen_current + 1
    /\ id_gen_unfinished' = id_gen_unfinished
    /\ calls' = [calls EXCEPT ![c] =
                    [NoCall EXCEPT !.kind = kind, !.pc = "reserved", !.local = local,
                                   !.remote = remote, !.origin = origin,
                                   !.message_id = message_id,
                                   !.stream_id = id_gen_current + 1, !.now_ms = now_ms]]
    /\ UNCHANGED <<devices, tables, caches, rd>>

\* `with self._device_inbox_id_gen.get_next() as stream_id:` and the clock read
Reserve(c, kind, local, remote, origin, message_id, now_ms) ==
    /\ calls[c].kind = "none"
    /\ \A b \in CallIds : b < c => calls[b].kind # "none"
    /\ id_gen_current' = id_gen_current + 1
    /\ id_gen_unfinished' = id_gen_unfinished \cup {id_gen_current + 1}
    /\ calls' = [calls EXCEPT ![c] =
                    [NoCall EXCEPT !.kind = kind, !.pc = "reserved", !.local = local,
                                   !.remote = remote, !.origin = origin,
                                   !.message_id = message_id,
                                   !.stream_id = id_gen_current + 1, !.now_ms = now_ms]]
    /\ UNCHANGED <<devices, tables, caches, rd>>

\* add_messages_to_device_inbox, up to the yield
EnqueueStart(c, batches) ==
    \E b \in batches, now_ms \in Times :
        Reserve(c, "enqueue", b[1], b[2], "", "", now_ms)

\* add_messages_from_remote_to_device_inbox, up to the yield
IngestStart(c, message_ids, batches) ==
    \E origin \in Origins, message_id \in message_ids, local \in batches, now_ms \in Times :
        Reserve(c, "ingest", local, EmptyMap, origin, message_id, now_ms)

\* local_users_and_devices: the (user_id, device_id) the SELECTs on devices find
local_users_and_devices(local) ==
    {ud \in devices : ud[1] \in DOMAIN local /\ ud[2] \in DOMAIN local[ud[1]]}

\* the (user_id, device_id) pairs of the dict
Addressed(local) ==
    {ud \in Users \X DeviceIds : ud[1] \in DOMAIN local /\ ud[2] \in DOMAIN local[ud[1]]}

\* LocalRows with a stream position of its own for a user's second device
LocalRows_per_device(stream_id, local) ==
    {[user_id |-> ud[1], device_id |-> ud[2],
      stream_id |-> IF ud[2] = "dev1" THEN stream_id ELSE stream_id + 1,
      message_json |-> Dumps(local[ud[1]][ud[2]])] :
        ud \in {x \in Addressed(local) : x \in local_users_and_devices(local)}}

\* LocalRows without the test `(user_id, device_id) in local_users_and_devices`
LocalRows_unfiltered(stream_id, local) ==
    {[user_id |-> ud[1], device_id |-> ud[2], stream_id |-> stream_id,
      message_json |-> Dumps(local[ud[1]][ud[2]])] : ud \in Addressed(local)}

\* the rows _add_messages_to_local_device_inbox_txn inserts
LocalRows(stream_id, local) ==
    {[user_id |-> ud[1], device_id |-> ud[2], stream_id |-> stream_id,
      message_json |-> Dumps(local[ud[1]][ud[2]])] :
        ud \in {x \in Addressed(local) : x \in local_users_and_devices(local)}}

\* RemoteRows with a single execute in place of executemany
RemoteRows_first(stream_id, now_ms, remote) ==
    IF DOMAIN remote = {} THEN {}
    ELSE LET d == CHOOSE x \in DOMAIN remote : TRUE
         IN  {[destination |-> d, stream_id |-> stream_id, queued_ts |-> now_ms,
               messages_json |-> Dumps(remote[d])]}

\* the rows add_messages_txn inserts into device_federation_outbox
RemoteRows(stream_id, now_ms, remote) ==
    {[destination |-> d, stream_id |-> stream_id, queued_ts |-> now_ms,
      messages_json |-> Dumps(remote[d])] : d \in DOMAIN remote}

\* add_messages_to_device_inbox.add_messages_txn, committed.  (A user with an
\* empty dict of devices gives `device_id IN ()`: SQLite runs it and finds
\* nothing, PostgreSQL rejects it and the transaction is TxnFail.)
EnqueueTxnCommit(c) ==
    /\ calls[c].kind = "enqueue" /\ calls[c].pc = "reserved"
    /\ device_inbox' = device_inbox (+) SetToBag(LocalRows(calls[c].stream_id, calls[c].local))
    /\ device_federation_outbox' = device_federation_outbox (+)
           SetToBag(RemoteRows(calls[c].stream_id, calls[c].now_ms, calls[c].remote))
    /\ calls' = [calls EXCEPT ![c].pc = "committed", ![c].inserted = TRUE,
                    ![c].dropped = Addressed(calls[c].local) \ devices]
    /\ UNCHANGED <<devices, device_federation_inbox, id_gen, caches, rd>>

\* already_inserted that never finds the earlier delivery
already_inserted_never(origin, message_id) == FALSE

\* already_inserted is not None
already_inserted(origin, message_id) ==
    \E r \in BagToSet(device_federation_inbox) :
        r.origin = origin /\ r.message_id = message_id

\* IngestTxnCommit without the check for an earlier delivery
IngestTxnCommit_unchecked(c) ==
    /\ calls[c].kind = "ingest" /\ calls[c].pc = "reserved"
    /\ device_federation_inbox' = device_federation_inbox (+)
           SetToBag({[origin |-> calls[c].origin, message_id |-> calls[c].message_id,
                      received_ts |-> calls[c].now_ms]})
    /\ device_inbox' = device_inbox (+)
           SetToBag(LocalRows(calls[c].stream_id, calls[c].local))
    /\ calls' = [calls EXCEPT ![c].pc = "committed", ![c].inserted = TRUE,
                    ![c].dropped = Addressed(calls[c].local) \ devices]
    /\ UNCHANGED <<devices, device_federation_outbox, id_gen, caches, rd>>

\* IngestTxnCommit that also queues the batch for the destinations, as
\* add_messages_to_device_inbox's transaction does
IngestTxnCommit_relays(c) ==
    /\ calls[c].kind = "ingest" /\ calls[c].pc = "reserved"
    /\ IF already_inserted(calls[c].origin, calls[c].message_id)
       THEN /\ calls' = [calls EXCEPT ![c].pc = "committed"]
            /\ UNCHANGED <<device_inbox, device_federation_inbox, device_federation_outbox>>
       ELSE /\ device_federation_inbox' = device_federation_inbox (+)
                   SetToBag({[origin |-> calls[c].origin, message_id |-> calls[c].message_id,
                              received_ts |-> calls[c].now_ms]})
            /\ device_inbox' = device_inbox (+)
                   SetToBag(LocalRows(calls[c].stream_id, calls[c].local))
            /\ device_federation_outbox' = device_federation_outbox (+)
                   SetToBag(RemoteRows(calls[c].stream_id, calls[c].now_ms,
                                       [d \in Destinations |-> calls[c].message_id]))
            /\ calls' = [calls EXCEPT ![c].pc = "committed", ![c].inserted = TRUE,
                            ![c].dropped = Addressed(calls[c].local) \ devices]
    /\ UNCHANGED <<devices, id_gen, caches, rd>>

\* add_messages_from_remote_to_device_inbox.add_messages_txn, committed
IngestTxnCommit(c) ==
    /\ calls[c].kind = "ingest" /\ calls[c].pc = "reserved"
    /\ IF already_inserted(calls[c].origin, calls[c].message_id)
       THEN /\ calls' = [calls EXCEPT ![c].pc = "committed"]
            /\ UNCHANGED <<device_inbox, device_federation_inbox>>
       ELSE /\ device_federation_inbox' = device_federation_inbox (+)
                   SetToBag({[origin |-> calls[c].origin, message_id |-> calls[c].message_id,
                              received_ts |-> calls[c].now_ms]})
            /\ device_inbox' = device_inbox (+)
                   SetToBag(LocalRows(calls[c].stream_id, calls[c].local))
            /\ calls' = [calls EXCEPT ![c].pc = "committed", ![c].inserted = TRUE,
                            ![c].dropped = Addressed(calls[c].local) \ devices]
    /\ UNCHANGED <<devices, device_federation_outbox, id_gen, caches, rd>>

\* runInteraction raises: the transaction is rolled back
TxnFail(c) ==
    /\ calls[c].pc = "reserved"
    /\ calls' = [calls EXCEPT ![c].pc = "failed"]
    /\ UNCHANGED <<devices, tables, id_gen, caches, rd>>

\* EnqueueFinish without the loop over remote_messages_by_destination
EnqueueFinish_nodest(c) ==
    /\ calls[c].kind = "enqueue" /\ calls[c].pc = "committed"
    /\ inbox_cache' = mark_all(inbox_cache, DOMAIN calls[c].local, calls[c].stream_id)
    /\ outbox_cache' = outbox_cache
    /\ id_gen_unfinished' = id_gen_unfinished \ {calls[c].stream_id}
    /\ calls' = [calls EXCEPT ![c].pc = "done", ![c].outcome = "returned",
                    ![c].result = get_current_token_of(id_gen_current,
                                      id_gen_unfinished \ {calls[c].stream_id})]
    /\ UNCHANGED <<devices, tables, id_gen_current, rd>>

\* add_messages_to_device_inbox after the yield: the change markers, the end
\* of the `with` block, and the returned token
EnqueueFinish(c) ==
    /\ calls[c].kind = "enqueue" /\ calls[c].pc = "committed"
    /\ inbox_cache' = mark_all(inbox_cache, DOMAIN calls[c].local, calls[c].stream_id)
    /\ outbox_cache' = mark_all(outbox_cache, DOMAIN calls[c].remote, calls[c].stream_id)
    /\ id_gen_unfinished' = id_gen_unfinished \ {calls[c].stream_id}
    /\ calls' = [calls EXCEPT ![c].pc = "done", ![c].outcome = "returned",
                    ![c].result = get_current_token_of(id_gen_current,
                                      id_gen_unfinished \ {calls[c].stream_id})]
    /\ UNCHANGED <<devices, tables, id_gen_current, rd>>

\* IngestFinish with the change markers recorded only by a call that inserted
IngestFinish_fresh_only(c) ==
    /\ calls[c].kind = "ingest" /\ calls[c].pc = "committed"
    /\ inbox_cache' = IF calls[c].inserted
                      THEN mark_all(inbox_cache, DOMAIN calls[c].local, calls[c].stream_id)
                      ELSE inbox_cache
    /\ id_gen_unfinished' = id_gen_unfinished \ {calls[c].stream_id}
    /\ calls' = [calls EXCEPT ![c].pc = "done", ![c].outcome = "returned"]
    /\ UNCHANGED <<devices, tables, id_gen_current, outbox_cache, rd>>

\* add_messages_from_remote_to_device_inbox after the yield
IngestFinish(c) ==
    /\ calls[c].kind = "ingest" /\ calls[c].pc = "committed"
    /\ inbox_cache' = mark_all(inbox_cache, DOMAIN calls[c].local, calls[c].stream_id)
    /\ id_gen_unfinished' = id_gen_unfinished \ {calls[c].stream_id}
    /\ calls' = [calls EXCEPT ![c].pc = "done", ![c].outcome = "returned"]
    /\ UNCHANGED <<devices, tables, id_gen_current, outbox_cache, rd>>

\* Raise that leaves the stream id reserved
Raise_leak(c) ==
    /\ calls[c].pc = "failed"
    /\ calls' = [calls EXCEPT ![c].pc = "done", ![c].outcome = "raised"]
    /\ UNCHANGED <<devices, tables, id_gen, caches, rd>>

\* the exception of runInteraction leaves the `with` block
Raise(c) ==
    /\ calls[c].pc = "failed"
    /\ id_gen_unfinished' = id_gen_unfinished \ {calls[c].stream_id}
    /\ calls' = [calls EXCEPT ![c].pc = "done", ![c].outcome = "raised"]
    /\ UNCHANGED <<devices, tables, id_gen_current, caches, rd>>

\* delete_messages_for_device with `stream_id < ?` for `stream_id <= ?`
delete_messages_for_device_below(user_id, device_id, up_to_stream_id) ==
    /\ LET Hit(x) == /\ x.user_id = user_id /\ x.device_id = device_id
                     /\ x.stream_id < up_to_stream_id
       IN  device_inbox' = device_inbox (-) Where(device_inbox, Hit)
    /\ UNCHANGED <<devices, device_federation_outbox, device_federation_inbox,
                   id_gen, caches, calls>>

\* delete_messages_for_device
delete_messages_for_device(user_id, device_id, up_to_stream_id) ==
    /\ LET Hit(x) == /\ x.user_id = user_id /\ x.device_id = device_id
                     /\ x.stream_id <= up_to_stream_id
       IN  device_inbox' = device_inbox (-) Where(device_inbox, Hit)
    /\ UNCHANGED <<devices, device_federation_outbox, device_federation_inbox,
                   id_gen, caches, calls>>

\* delete_device_msgs_for_remote
delete_device_msgs_for_remote(destination, up_to_stream_id) ==
    /\ LET Hit(x) == x.destination = destination /\ x.stream_id <= up_to_stream_id
       IN  device_federation_outbox' =
               device_federation_outbox (-) Where(device_federation_outbox, Hit)
    /\ UNCHANGED <<devices, device_inbox, device_federation_inbox,
                   id_gen, caches, calls>>

\* a caller trims a device's queue; rd keeps the arguments of the call
DeleteForDevice ==
    \E ud \in TrimDevices, p \in Positions :
        /\ delete_messages_for_device(ud[1], ud[2], p)
        /\ rd' = [NoRead EXCEPT !.op = "trim_device", !.user_id = ud[1],
                                !.device_id = ud[2], !.current = p]

\* a caller trims a destination's queue; rd keeps the arguments of the call
DeleteForRemote ==
    \E d \in TrimDestinations, p \in Positions :
        /\ delete_device_msgs_for_remote(d, p)
        /\ rd' = [NoRead EXCEPT !.op = "trim_remote", !.destination = d, !.current = p]

\* the devices table is written by the device store
RegisterDevice ==
    /\ \E ud \in ChurnDevices \ devices : devices' = devices \cup {ud}
    /\ UNCHANGED <<tables, id_gen, caches, calls, rd>>

DeleteDevice ==
    /\ \E ud \in ChurnDevices \cap devices : devices' = devices \ {ud}
    /\ UNCHANGED <<tables, id_gen, caches, calls, rd>>

\* ------------------------------------------------------------------ readers
\* device_inbox_window with `? <= stream_id` for `? < stream_id`
device_inbox_window_from(user_id, device_id, last_stream_id, current_stream_id) ==
    LET Hit(x) == /\ x.user_id = user_id /\ x.device_id = device_id
                  /\ last_stream_id <= x.stream_id /\ x.stream_id <= current_stream_id
    IN  Where(device_inbox, Hit)

\* the rows of get_new_messages_for_device_txn's SELECT, before ORDER BY and LIMIT
device_inbox_window(user_id, device_id, last_stream_id, current_stream_id) ==
    LET Hit(x) == /\ x.user_id = user_id /\ x.device_id = device_id
                  /\ last_stream_id < x.stream_id /\ x.stream_id <= current_stream_id
    IN  Where(device_inbox, Hit)

\* the rows of get_new_messages_for_remote_destination_txn's SELECT
device_federation_outbox_window(destination, last_stream_id, current_stream_id) ==
    LET Hit(x) == /\ x.destination = destination
                  /\ last_stream_id < x.stream_id /\ x.stream_id <= current_stream_id
    IN  Where(device_federation_outbox, Hit)

\* get_new_messages_for_device_txn that returns current_stream_id after a
\* full page too
get_new_messages_for_device_txn_always_current(rows, current_stream_id, limit) ==
    [fast |-> FALSE,
     positions |-> [i \in 1..Len(rows) |-> rows[i].stream_id],
     messages |-> [i \in 1..Len(rows) |-> Loads(rows[i].message_json)],
     stream_pos |-> current_stream_id]

\* get_new_messages_for_device_txn without `if len(messages) < limit`
get_new_messages_for_device_txn_last_row(rows, current_stream_id, limit) ==
    [fast |-> FALSE,
     positions |-> [i \in 1..Len(rows) |-> rows[i].stream_id],
     messages |-> [i \in 1..Len(rows) |-> Loads(rows[i].message_json)],
     stream_pos |-> IF rows = <<>> THEN current_stream_id ELSE rows[Len(rows)].stream_id]

\* get_new_messages_for_device_txn, from the fetched rows on.  (limit = 0
\* leaves stream_pos unbound; the readers are called with limit >= 1.)
get_new_messages_for_device_txn(rows, current_stream_id, limit) ==
    [fast |-> FALSE,
     positions |-> [i \in 1..Len(rows) |-> rows[i].stream_id],
     messages |-> [i \in 1..Len(rows) |-> Loads(rows[i].message_json)],
     stream_pos |-> IF Len(rows) < limit THEN current_stream_id
                    ELSE rows[Len(rows)].stream_id]

\* get_new_messages_for_remote_destination_txn, from the fetched rows on
get_new_messages_for_remote_destination_txn(rows, current_stream_id, limit) ==
    [fast |-> FALSE,
     positions |-> [i \in 1..Len(rows) |-> rows[i].stream_id],
     messages |-> [i \in 1..Len(rows) |-> Loads(rows[i].messages_json)],
     stream_pos |-> IF Len(rows) < limit THEN current_stream_id
                    ELSE rows[Len(rows)].stream_id]

\* the result of the change cache's fast path
NotChanged(current_stream_id) ==
    [fast |-> TRUE, positions |-> <<>>, messages |-> <<>>, stream_pos |-> current_stream_id]

\* get_new_messages_for_device that asks the cache for changes since
\* current_stream_id
get_new_messages_for_device_since_current(user_id, device_id, last_stream_id, current_stream_id, limit) ==
    IF ~has_entity_changed(inbox_cache, user_id, current_stream_id)
    THEN {NotChanged(current_stream_id)}
    ELSE {}

\* get_new_messages_for_device whose fast path returns last_stream_id
get_new_messages_for_device_stale(user_id, device_id, last_stream_id, current_stream_id, limit) ==
    IF ~has_entity_changed(inbox_cache, user_id, last_stream_id)
    THEN {NotChanged(last_stream_id)}
    ELSE {}

\* get_new_messages_for_device, as far as the call goes: the cache is asked as
\* the function is called.  When it answers "not changed" the deferred has
\* fired with ([], current_stream_id) as the call returns; otherwise the
\* transaction is handed to runInteraction and there is no result yet ({}).
get_new_messages_for_device(user_id, device_id, last_stream_id, current_stream_id, limit) ==
    IF ~has_entity_changed(inbox_cache, user_id, last_stream_id)
    THEN {NotChanged(current_stream_id)}
    ELSE {}

\* get_new_device_msgs_for_remote, as far as the call goes
get_new_device_msgs_for_remote(destination, last_stream_id, current_stream_id, limit) ==
    IF ~has_entity_changed(outbox_cache, destination, last_stream_id)
    THEN {NotChanged(current_stream_id)}
    ELSE {}

\* get_new_messages_for_device_txn, run by runInteraction after the call has
\* returned: the results it can give in the state it runs in
run_get_new_messages_for_device_txn(user_id, device_id, last_stream_id, current_stream_id, limit) ==
    {get_new_messages_for_device_txn(Limit(s, limit), current_stream_id, limit) :
        s \in OrderByStreamId(device_inbox_window(user_id, device_id,
                                                  last_stream_id, current_stream_id))}

\* get_new_messages_for_remote_destination_txn, run by runInteraction after
\* the call has returned
run_get_new_messages_for_remote_destination_txn(destination, last_stream_id, current_stream_id, limit) ==
    {get_new_messages_for_remote_destination_txn(Limit(s, limit), current_stream_id, limit) :
        s \in OrderByStreamId(device_federation_outbox_window(destination,
                                                  last_stream_id, current_stream_id))}

\* a set of stream ids in ascending order
RECURSIVE Ascending(_)
Ascending(S) == IF S = {} THEN <<>> ELSE <<Min(S)>> \o Ascending(S \ {Min(S)})

\* the first SELECT of get_all_new_device_messages_txn:
\* GROUP BY stream_id ORDER BY stream_id ASC LIMIT ?
stream_ids(last_pos, current_pos, limit) ==
    Limit(Ascending({r.stream_id : r \in {x \in BagToSet(device_inbox) :
                        last_pos < x.stream_id /\ x.stream_id <= current_pos}}), limit)

\* the second SELECT of get_all_new_device_messages_txn, bounded by a stream id
all_rows_up_to(last_pos, max_stream_id) ==
    LET Hit(x) == last_pos < x.stream_id /\ x.stream_id <= max_stream_id
    IN  {[i \in 1..Len(s) |-> <<s[i].stream_id, s[i].user_id, s[i].device_id,
                                s[i].message_json>>] :
            s \in OrderByStreamId(Where(device_inbox, Hit))}

\* get_all_new_device_messages_txn, run by runInteraction: the outcomes it can
\* have in the state it runs in.  max_stream_id_in_limit is stream_ids[-1], a
\* row and not its stream id: as the bound of `stream_id <= ?` psycopg2 adapts
\* the one-element row to `(n)` and the query runs; sqlite3 cannot bind it and
\* raises InterfaceError.
run_get_all_new_device_messages_txn(last_pos, current_pos, limit) ==
    LET ids == stream_ids(last_pos, current_pos, limit)
    IN  IF ids = <<>> THEN {[status |-> "ok", rows |-> <<>>]}
        ELSE {[status |-> "ok", rows |-> t] : t \in all_rows_up_to(last_pos, ids[Len(ids)])}
             \cup {[status |-> "error", rows |-> <<>>]}

\* get_all_new_device_messages, as far as the call goes: [] at once when
\* last_pos is current_pos, and otherwise no result before the transaction
\* has run
get_all_new_device_messages(last_pos, current_pos, limit) ==
    IF last_pos = current_pos THEN {[status |-> "ok", rows |-> <<>>]} ELSE {}

\* what the reader's record keeps of the store as a chain begins: the rows of
\* the chain's entity
DeviceRows(user_id, device_id) ==
    LET Hit(x) == x.user_id = user_id /\ x.device_id = device_id
    IN  Where(device_inbox, Hit)

DestinationRows(destination) ==
    LET Hit(x) == x.destination = destination
    IN  Where(device_federation_outbox, Hit)

\* reads of one chain: as many as a drain of MaxCalls positions can need
ChainCap == MaxCalls + 2

\* the reader's record as a read is called that begins (start) or continues a
\* chain: the arguments of the call, and no result yet
Called(op, user_id, device_id, destination, last, current, limit, start, stored) ==
    [op |-> op, user_id |-> user_id, device_id |-> device_id, destination |-> destination,
     last |-> last, current |-> current, limit |-> limit, status |-> "ok",
     pending |-> TRUE, fast |-> FALSE, positions |-> <<>>, rows |-> <<>>,
     messages |-> <<>>, stream_pos |-> last,
     init_last |-> IF start THEN last ELSE rd.init_last,
     reads |-> IF start THEN 1 ELSE rd.reads + 1,
     acc |-> IF start THEN <<>> ELSE rd.acc,
     stored |-> IF start THEN stored ELSE rd.stored,
     visible |-> IF start THEN current <= get_current_token ELSE rd.visible]

\* the reader's record once the deferred of the read r has fired with res
Fired(r, res) ==
    [r EXCEPT !.pending = FALSE, !.fast = res.fast, !.positions = res.positions,
              !.messages = res.messages, !.stream_pos = res.stream_pos,
              !.acc = @ \o res.messages]

\* a client calls get_new_messages_for_device: the cache is asked, and the
\* deferred has fired as the call returns or waits for the transaction
ReadDeviceStart ==
    /\ rd.op = "none"
    /\ \E ud \in ReadDevices, last \in Positions, current \in Positions, limit \in Limits :
        /\ last <= current
        /\ LET called == Called("device", ud[1], ud[2], "", last, current, limit, TRUE,
                                DeviceRows(ud[1], ud[2]))
               now == get_new_messages_for_device(ud[1], ud[2], last, current, limit)
           IN  IF now = {} THEN rd' = called
               ELSE \E res \in now : rd' = Fired(called, res)
        /\ UNCHANGED <<devices, tables, id_gen, caches, calls>>

\* the client calls it again from the position the last call returned
ReadDeviceResume ==
    /\ rd.op = "device" /\ ~rd.pending
    /\ rd.stream_pos # rd.current /\ rd.reads < ChainCap
    /\ LET called == Called("device", rd.user_id, rd.device_id, "", rd.stream_pos,
                            rd.current, rd.limit, FALSE, EmptyBag)
           now == get_new_messages_for_device(rd.user_id, rd.device_id, rd.stream_pos,
                                              rd.current, rd.limit)
       IN  IF now = {} THEN rd' = called
           ELSE \E res \in now : rd' = Fired(called, res)
    /\ UNCHANGED <<devices, tables, id_gen, caches, calls>>

\* the transaction of the queued get_new_messages_for_device runs
ReadDeviceTxn ==
    /\ rd.op = "device" /\ rd.pending
    /\ \E res \in run_get_new_messages_for_device_txn(rd.user_id, rd.device_id, rd.last,
                                                      rd.current, rd.limit) :
          rd' = Fired(rd, res)
    /\ UNCHANGED <<devices, tables, id_gen, caches, calls>>

\* the federation sender calls get_new_device_msgs_for_remote
ReadRemoteStart ==
    /\ rd.op = "none"
    /\ \E d \in ReadDestinations, last \in Positions, current \in Positions, limit \in Limits :
        /\ last <= current
        /\ LET called == Called("remote", "", "", d, last, current, limit, TRUE,
                                DestinationRows(d))
               now == get_new_device_msgs_for_remote(d, last, current, limit)
           IN  IF now = {} THEN rd' = called
               ELSE \E res \in now : rd' = Fired(called, res)
        /\ UNCHANGED <<devices, tables, id_gen, caches, calls>>

\* the federation sender calls it again from the position the last call returned
ReadRemoteResume ==
    /\ rd.op = "remote" /\ ~rd.pending
    /\ rd.stream_pos # rd.current /\ rd.reads < ChainCap
    /\ LET called == Called("remote", "", "", rd.destination, rd.stream_pos, rd.current,
                            rd.limit, FALSE, EmptyBag)
           now == get_new_device_msgs_for_remote(rd.destination, rd.stream_pos,
                                                 rd.current, rd.limit)
       IN  IF now = {} THEN rd' = called
           ELSE \E res \in now : rd' = Fired(called, res)
    /\ UNCHANGED <<devices, tables, id_gen, caches, calls>>

\* the transaction of the queued get_new_device_msgs_for_remote runs
ReadRemoteTxn ==
    /\ rd.op = "remote" /\ rd.pending
    /\ \E res \in run_get_new_messages_for_remote_destination_txn(rd.destination, rd.last,
                                                                  rd.current, rd.limit) :
          rd' = Fired(rd, res)
    /\ UNCHANGED <<devices, tables, id_gen, caches, calls>>

\* the replication layer calls get_all_new_device_messages
ReadAll ==
    /\ rd.op = "none"
    /\ \E last \in Positions, current \in Positions, limit \in Limits :
        /\ last <= current
        /\ LET called == [NoRead EXCEPT !.op = "all", !.last = last, !.current = current,
                                        !.limit = limit, !.pending = TRUE]
               now == get_all_new_device_messages(last, current, limit)
           IN  IF now = {} THEN rd' = called
               ELSE \E res \in now : rd' = [called EXCEPT !.pending = FALSE,
                                                          !.status = res.status,
                                                          !.rows = res.rows]
        /\ UNCHANGED <<devices, tables, id_gen, caches, calls>>

\* the transaction of the queued get_all_new_device_messages runs
ReadAllTxn ==
    /\ rd.op = "all" /\ rd.pending
    /\ \E res \in run_get_all_new_device_messages_txn(rd.last, rd.current, rd.limit) :
          rd' = [rd EXCEPT !.pending = FALSE, !.status = res.status, !.rows = res.rows]
    /\ UNCHANGED <<devices, tables, id_gen, caches, calls>>

\* the write path and the devices table
Next ==
    \/ \E c \in CallIds : EnqueueStart(c, Batches)
    \/ \E c \in CallIds : IngestStart(c, MessageIds, RemoteBatches)
    \/ \E c \in CallIds : EnqueueTxnCommit(c)
    \/ \E c \in CallIds : IngestTxnCommit(c)
    \/ \E c \in CallIds : TxnFail(c)
    \/ \E c \in CallIds : EnqueueFinish(c)
    \/ \E c \in CallIds : IngestFinish(c)
    \/ \E c \in CallIds : Raise(c)
    \/ RegisterDevice
    \/ DeleteDevice

Spec == Init /\ [][Next]_vars
\* the reader is done with what it read, or gives up a read whose transaction
\* has failed
ReadDone ==
    /\ rd.op # "none"
    /\ rd' = NoRead
    /\ UNCHANGED <<devices, tables, id_gen, caches, calls>>

\* the whole store next to its readers, on the small batches
ReadNext ==
    \/ \E c \in CallIds : EnqueueStart(c, SmallBatches)
    \/ \E c \in CallIds : IngestStart(c, SmallMessageIds, SmallRemoteBatches)
    \/ \E c \in CallIds : EnqueueTxnCommit(c)
    \/ \E c \in CallIds : IngestTxnCommit(c)
    \/ \E c \in CallIds : TxnFail(c)
    \/ \E c \in CallIds : EnqueueFinish(c)
    \/ \E c \in CallIds : IngestFinish(c)
    \/ \E c \in CallIds : Raise(c)
    \/ ReadDeviceStart
    \/ ReadDeviceResume
    \/ ReadDeviceTxn
    \/ ReadRemoteStart
    \/ ReadRemoteResume
    \/ ReadRemoteTxn
    \/ ReadAll
    \/ ReadAllTxn
    \/ ReadDone

ReadSpec == Init /\ [][ReadNext]_vars

\* a call that has been made goes on: its transaction ends, and the call
\* resumes after it
CallStep(c) ==
    \/ EnqueueTxnCommit(c)
    \/ IngestTxnCommit(c)
    \/ TxnFail(c)
    \/ EnqueueFinish(c)
    \/ IngestFinish(c)
    \/ Raise(c)

\* the write path, where the deferred of every runInteraction fires and the
\* reactor resumes every call that waits for one
LiveNext ==
    \/ \E c \in CallIds : EnqueueStart(c, SmallBatches)
    \/ \E c \in CallIds : IngestStart(c, SmallMessageIds, SmallRemoteBatches)
    \/ \E c \in CallIds : CallStep(c)

LiveSpec == Init /\ [][LiveNext]_vars /\ \A c \in CallIds : WF_vars(CallStep(c))

\* get_to_device_stream_token
get_to_device_stream_token == get_current_token

\* a client of one device begins at a cursor the stream has reached: rd keeps
\* the cursor it began at, the cursor it is at, the positions the reads have
\* returned, the messages they have delivered, and where its read stands: not
\* begun ("idle"), the token read ("token"), the transaction queued ("queued")
ClientDeviceStart ==
    /\ rd.op = "none"
    /\ \E ud \in ReadDevices, start \in Positions :
          /\ start <= get_to_device_stream_token
          /\ rd' = [op |-> "client_device", user_id |-> ud[1], device_id |-> ud[2],
                    destination |-> "", start |-> start, cursor |-> start,
                    returned |-> {}, delivered |-> {}, trims |-> 0,
                    pc |-> "idle", token |-> 0, limit |-> 0]
    /\ UNCHANGED <<devices, tables, id_gen, caches, calls>>

\* a federation sender begins at a cursor the stream has reached
ClientRemoteStart ==
    /\ rd.op = "none"
    /\ \E d \in ReadDestinations, start \in Positions :
          /\ start <= get_to_device_stream_token
          /\ rd' = [op |-> "client_remote", user_id |-> "", device_id |-> "",
                    destination |-> d, start |-> start, cursor |-> start,
                    returned |-> {}, delivered |-> {}, trims |-> 0,
                    pc |-> "idle", token |-> 0, limit |-> 0]
    /\ UNCHANGED <<devices, tables, id_gen, caches, calls>>

\* the messages of a read's result, each with its position
Delivered(res) == {<<res.positions[i], res.messages[i]>> : i \in 1..Len(res.positions)}

\* the client's record once a read has given it its result
Took(r, res) ==
    [r EXCEPT !.pc = "idle", !.cursor = res.stream_pos,
              !.returned = @ \cup {res.stream_pos},
              !.delivered = @ \cup Delivered(res)]

\* the client asks get_to_device_stream_token() for the current_stream_id of
\* its next read
ClientReadToken ==
    /\ rd.op \in {"client_device", "client_remote"} /\ rd.pc = "idle"
    /\ rd' = [rd EXCEPT !.pc = "token", !.token = get_to_device_stream_token]
    /\ UNCHANGED <<devices, tables, id_gen, caches, calls>>

\* the client calls get_new_messages_for_device from its cursor up to the
\* token it has read: the result is there at once, or the transaction is
\* queued
ClientDeviceRead ==
    /\ rd.op = "client_device" /\ rd.pc = "token"
    /\ \E limit \in Limits :
        LET now == get_new_messages_for_device(rd.user_id, rd.device_id, rd.cursor,
                                               rd.token, limit)
        IN  IF now = {}
            THEN rd' = [rd EXCEPT !.pc = "queued", !.limit = limit]
            ELSE \E res \in now : rd' = Took(rd, res)
    /\ UNCHANGED <<devices, tables, id_gen, caches, calls>>

\* the transaction of the client's read runs
ClientDeviceReadTxn ==
    /\ rd.op = "client_device" /\ rd.pc = "queued"
    /\ \E res \in run_get_new_messages_for_device_txn(rd.user_id, rd.device_id, rd.cursor,
                                                      rd.token, rd.limit) :
          rd' = Took(rd, res)
    /\ UNCHANGED <<devices, tables, id_gen, caches, calls>>

\* the federation sender calls get_new_device_msgs_for_remote from its cursor
\* up to the token it has read
ClientRemoteRead ==
    /\ rd.op = "client_remote" /\ rd.pc = "token"
    /\ \E limit \in Limits :
        LET now == get_new_device_msgs_for_remote(rd.destination, rd.cursor, rd.token, limit)
        IN  IF now = {}
            THEN rd' = [rd EXCEPT !.pc = "queued", !.limit = limit]
            ELSE \E res \in now : rd' = Took(rd, res)
    /\ UNCHANGED <<devices, tables, id_gen, caches, calls>>

\* the transaction of the federation sender's read runs
ClientRemoteReadTxn ==
    /\ rd.op = "client_remote" /\ rd.pc = "queued"
    /\ \E res \in run_get_new_messages_for_remote_destination_txn(rd.destination, rd.cursor,
                                                                  rd.token, rd.limit) :
          rd' = Took(rd, res)
    /\ UNCHANGED <<devices, tables, id_gen, caches, calls>>

\* the client trims up to a position one of its reads has returned
ClientDeviceTrim ==
    /\ rd.op = "client_device"
    /\ \E p \in rd.returned : delete_messages_for_device(rd.user_id, rd.device_id, p)
    /\ rd' = [rd EXCEPT !.trims = 1]

\* the federation sender trims up to a position one of its reads has returned
ClientRemoteTrim ==
    /\ rd.op = "client_remote"
    /\ \E p \in rd.returned : delete_device_msgs_for_remote(rd.destination, p)
    /\ rd' = [rd EXCEPT !.trims = 1]

\* the write path next to a client that reads and trims
ClientNext ==
    \/ \E c \in CallIds : EnqueueStart(c, SmallBatches)
    \/ \E c \in CallIds : IngestStart(c, SmallMessageIds, SmallRemoteBatches)
    \/ \E c \in CallIds : CallStep(c)
    \/ ClientDeviceStart
    \/ ClientRemoteStart
    \/ ClientReadToken
    \/ ClientDeviceRead
    \/ ClientDeviceReadTxn
    \/ ClientRemoteRead
    \/ ClientRemoteReadTxn
    \/ ClientDeviceTrim
    \/ ClientRemoteTrim

ClientSpec == Init /\ [][ClientNext]_vars

\* the write path next to the trimmer
TrimNext ==
    \/ \E c \in CallIds : EnqueueStart(c, TrimBatches)
    \/ \E c \in CallIds : IngestStart(c, SmallMessageIds, SmallRemoteBatches)
    \/ \E c \in CallIds : EnqueueTxnCommit(c)
    \/ \E c \in CallIds : IngestTxnCommit(c)
    \/ \E c \in CallIds : TxnFail(c)
    \/ \E c \in CallIds : EnqueueFinish(c)
    \/ \E c \in CallIds : IngestFinish(c)
    \/ \E c \in CallIds : Raise(c)
    \/ DeleteForDevice
    \/ DeleteForRemote

TrimSpec == Init /\ [][TrimNext]_vars

\* ------------------------------------------------------------------ properties
\* the number of rows of a table that satisfy P
CountWhere(table, P(_)) == BagCardinality(Where(table, P))

\* the rows of a table at one stream position
RowsAt(table, p) == {r \in BagToSet(table) : r.stream_id = p}

\* the number of device_inbox rows of one (user, device) at one position in a bag
InboxCount(bag, ud, p) ==
    LET Hit(x) == x.user_id = ud[1] /\ x.device_id = ud[2] /\ x.stream_id = p
    IN  CountWhere(bag, Hit)

\* the number of device_federation_outbox rows of one destination at one position
OutboxCount(bag, d, p) ==
    LET Hit(x) == x.destination = d /\ x.stream_id = p
    IN  CountWhere(bag, Hit)

Enqueues == {c \in CallIds : calls[c].kind = "enqueue"}
Ingests == {c \in CallIds : calls[c].kind = "ingest"}

\* the step in which the transaction of call c ends
TxnEnds(c) == calls[c].pc = "reserved" /\ calls'[c].pc # "reserved"

\* C1, in one transaction step: a failed transaction leaves both tables as
\* they were; a committed one adds, at the call's own position where no row
\* was before, one inbox row per addressed device that exists and one outbox
\* row per destination, with the payloads of the batch, and nothing else.
EnqueueTxnStep(c) ==
    LET sid == calls[c].stream_id
        local == calls[c].local
        remote == calls[c].remote
        addedI == device_inbox' (-) device_inbox
        addedO == device_federation_outbox' (-) device_federation_outbox
    IN  (c \in Enqueues /\ TxnEnds(c)) =>
          \/ /\ calls'[c].pc = "failed"
             /\ device_inbox' = device_inbox
             /\ device_federation_outbox' = device_federation_outbox
          \/ /\ calls'[c].pc = "committed"
             /\ RowsAt(device_inbox, sid) = {} /\ RowsAt(device_federation_outbox, sid) = {}
             /\ device_inbox \sqsubseteq device_inbox'
             /\ device_federation_outbox \sqsubseteq device_federation_outbox'
             /\ \A r \in BagToSet(addedI) :
                   /\ r.stream_id = sid
                   /\ r.user_id \in DOMAIN local /\ r.device_id \in DOMAIN local[r.user_id]
                   /\ Loads(r.message_json) = local[r.user_id][r.device_id]
             /\ \A r \in BagToSet(addedO) :
                   /\ r.stream_id = sid
                   /\ r.destination \in DOMAIN remote
                   /\ Loads(r.messages_json) = remote[r.destination]
             /\ \A ud \in Users \X DeviceIds :
                   InboxCount(addedI, ud, sid) =
                       IF ud \in Addressed(local) /\ ud \in devices THEN 1 ELSE 0
             /\ \A d \in Destinations :
                   OutboxCount(addedO, d, sid) = IF d \in DOMAIN remote THEN 1 ELSE 0

\* C1, in every state: a call whose transaction has not committed has no row
\* at its position, a call whose transaction has committed has all of them,
\* and a failed transaction is reported as a failure.
EnqueueAllOrNothing ==
    \A c \in Enqueues :
        LET sid == calls[c].stream_id
        IN  /\ calls[c].pc \in {"reserved", "failed"} \/ calls[c].outcome = "raised" =>
                RowsAt(device_inbox, sid) = {} /\ RowsAt(device_federation_outbox, sid) = {}
            /\ calls[c].pc = "committed" \/ calls[c].outcome = "returned" =>
                /\ \A ud \in Addressed(calls[c].local) :
                      InboxCount(device_inbox, ud, sid) = IF ud \in calls[c].dropped THEN 0 ELSE 1
                /\ \A d \in DOMAIN calls[c].remote :
                      OutboxCount(device_federation_outbox, d, sid) = 1
            /\ calls[c].pc = "done" =>
                (calls[c].outcome = "raised") = ~calls[c].inserted

\* C1: add_messages_to_device_inbox either fails and leaves device_inbox and
\* device_federation_outbox unchanged, or writes exactly one inbox row per
\* addressed existing device and one outbox row per destination, all at its
\* one fresh stream position; no state holds only part of a batch.
C1_EnqueueAtomic ==
    /\ []EnqueueAllOrNothing
    /\ [][\A c \in CallIds : EnqueueTxnStep(c)]_vars

\* a committed enqueue that fanned out to two users, a missing device and two
\* destinations, next to one that failed
C1_Witness ==
    \E c, f \in Enqueues :
        /\ calls[c].pc = "committed" /\ calls[c].dropped # {}
        /\ Cardinality(RowsAt(device_inbox, calls[c].stream_id)) >= 2
        /\ Cardinality(RowsAt(device_federation_outbox, calls[c].stream_id)) = 2
        /\ calls[f].outcome = "raised"
\* the ingest calls for one (origin, message_id)
IngestsOf(origin, message_id) ==
    {c \in Ingests : calls[c].origin = origin /\ calls[c].message_id = message_id}

\* the number of device_federation_inbox records of one (origin, message_id)
RecordCount(origin, message_id) ==
    LET Hit(x) == x.origin = origin /\ x.message_id = message_id
    IN  CountWhere(device_federation_inbox, Hit)

\* C2, in one transaction step: once a call for (origin, message_id) has
\* inserted, the transaction of every other call for it inserts nothing.
IngestReplayStep(c) ==
    (/\ c \in Ingests /\ TxnEnds(c)
     /\ \E b \in IngestsOf(calls[c].origin, calls[c].message_id) : b # c /\ calls[b].inserted)
    => /\ device_inbox' = device_inbox
       /\ device_federation_inbox' = device_federation_inbox

\* C2, in every state: one record and one applying call per delivered
\* (origin, message_id); the applying call's rows are at its position and the
\* replays have no row at theirs.
IngestOnce ==
    \A o \in Origins, m \in MessageIds :
        LET appliers == {c \in IngestsOf(o, m) : calls[c].inserted}
            delivered == {c \in IngestsOf(o, m) :
                             calls[c].pc = "committed" \/ calls[c].outcome = "returned"}
        IN  /\ Cardinality(appliers) <= 1
            /\ RecordCount(o, m) = Cardinality(appliers)
            /\ delivered # {} => RecordCount(o, m) = 1
            /\ \A c \in delivered \ appliers : RowsAt(device_inbox, calls[c].stream_id) = {}
            /\ \A c \in appliers : \A ud \in Addressed(calls[c].local) :
                  InboxCount(device_inbox, ud, calls[c].stream_id) =
                      IF ud \in calls[c].dropped THEN 0 ELSE 1

\* C2: after add_messages_from_remote_to_device_inbox(origin, message_id, M)
\* has committed, every later call with that (origin, message_id) inserts no
\* row into device_inbox or device_federation_inbox; the inbox holds M's rows
\* at one position and one record per (origin, message_id).
C2_IngestIdempotent ==
    /\ []IngestOnce
    /\ [][\A c \in CallIds : IngestReplayStep(c)]_vars

\* a delivery and its replay have both returned; the replay wrote nothing
C2_Witness ==
    \E a, b \in Ingests :
        /\ calls[a].origin = calls[b].origin /\ calls[a].message_id = calls[b].message_id
        /\ calls[a].stream_id < calls[b].stream_id
        /\ calls[a].outcome = "returned" /\ calls[a].inserted
        /\ calls[b].outcome = "returned" /\ ~calls[b].inserted
        /\ RowsAt(device_inbox, calls[a].stream_id) # {}
        /\ Addressed(calls[b].local) \cap devices # {}

\* C5, in one transaction step: the inserting transaction writes a row for
\* each addressed device that is in the devices table as the transaction runs,
\* none for the others, and commits.
DropStep(c) ==
    (TxnEnds(c) /\ calls'[c].inserted) =>
        /\ calls'[c].pc = "committed"
        /\ \A ud \in Addressed(calls[c].local) :
              InboxCount(device_inbox', ud, calls[c].stream_id) =
                  IF ud \in devices THEN 1 ELSE 0

\* C5, in every state: no row for a device that was missing when the call's
\* transaction ran, whatever has been registered since; the call returns.
Dropped ==
    \A c \in CallIds :
        /\ \A ud \in calls[c].dropped : InboxCount(device_inbox, ud, calls[c].stream_id) = 0
        /\ calls[c].inserted /\ calls[c].pc = "done" => calls[c].outcome = "returned"

\* C5: a message addressed to a (user, device) that is not in the devices
\* table when the inserting transaction runs is never in device_inbox, also
\* when the device is registered later; the rest of the batch is written and
\* the call succeeds.
C5_DropInvariant ==
    /\ []Dropped
    /\ [][\A c \in CallIds : DropStep(c)]_vars

\* a returned call dropped a message for a device that has been registered
\* since, and wrote the rest of its batch
C5_Witness ==
    \E c \in CallIds :
        /\ calls[c].outcome = "returned"
        /\ calls[c].dropped \cap devices # {}
        /\ RowsAt(device_inbox, calls[c].stream_id) # {}

\* C7: the value a successful add_messages_to_device_inbox returns is the
\* stream position reserved for that call, in every interleaving.
C7_ReturnsOwnPosition ==
    \A c \in Enqueues : calls[c].outcome = "returned" => calls[c].result = calls[c].stream_id

\* the rows a step adds to the two queues
AddedInbox == BagToSet(device_inbox' (-) device_inbox)
AddedOutbox == BagToSet(device_federation_outbox' (-) device_federation_outbox)

\* C8, in every state: a call in flight holds its reservation, and its
\* position is above the current token.
Reserved ==
    \A c \in CallIds :
        calls[c].pc \in {"reserved", "committed", "failed"} =>
            /\ calls[c].stream_id \in id_gen_unfinished
            /\ calls[c].stream_id > get_current_token

\* C8, in one step: rows are only inserted above the current token.
InsertsAboveToken ==
    \A r \in AddedInbox \cup AddedOutbox :
        r.stream_id > get_current_token /\ r.stream_id > get_current_token'

\* C8: for every position P up to get_to_device_stream_token the call that
\* reserved P is no longer in flight, so no row is inserted at a position that
\* is already visible; a call holds its reservation from before its
\* transaction until after it.
C8_Visibility ==
    /\ []Reserved
    /\ [][InsertsAboveToken]_vars

\* the later of two calls has committed and returned while the earlier one is
\* still in flight: its rows are stored and the token stays below both
C8_Witness ==
    \E a, b \in CallIds :
        /\ calls[a].pc = "reserved" /\ calls[b].outcome = "returned"
        /\ calls[a].stream_id < calls[b].stream_id
        /\ RowsAt(device_inbox, calls[b].stream_id) # {}
        /\ get_current_token < calls[a].stream_id

\* the step in which call c resumes after its transaction
Resumes(c) == calls[c].pc \in {"committed", "failed"} /\ calls'[c].pc = "done"

\* C9, the markers only follow a commit: a step changes a cache only as a
\* call whose transaction committed resumes, and only for that call's keys, to
\* that call's position; a call whose transaction failed changes no cache.
MarkersFollowCommit ==
    /\ \A c \in CallIds : (calls[c].pc = "failed" /\ Resumes(c)) => caches' = caches
    /\ caches' # caches =>
          \E c \in CallIds :
              /\ calls[c].pc = "committed" /\ Resumes(c)
              /\ \A u \in Users : inbox_cache'[u] # inbox_cache[u] =>
                    u \in DOMAIN calls[c].local /\ inbox_cache'[u] = calls[c].stream_id
              /\ \A d \in Destinations : outbox_cache'[d] # outbox_cache[d] =>
                    /\ calls[c].kind = "enqueue"
                    /\ d \in DOMAIN calls[c].remote /\ outbox_cache'[d] = calls[c].stream_id

\* C9 as stated: when a successful enqueue at position P resumes, the inbox
\* cache holds a marker at P for every user of the local map and the outbox
\* cache a marker at P for every destination of the remote map; markers are
\* recorded only after the commit and never by a failed call.
C9_MarkerAtOwnPosition ==
    [][/\ MarkersFollowCommit
       /\ \A c \in Enqueues : (calls[c].pc = "committed" /\ Resumes(c)) =>
             /\ \A u \in DOMAIN calls[c].local : inbox_cache'[u] = calls[c].stream_id
             /\ \A d \in DOMAIN calls[c].remote : outbox_cache'[d] = calls[c].stream_id]_vars

\* C9, in every state: the keys of a returned enqueue are marked at its
\* position or above.
MarkedSince ==
    \A c \in Enqueues : calls[c].outcome = "returned" =>
        /\ \A u \in DOMAIN calls[c].local : inbox_cache[u] >= calls[c].stream_id
        /\ \A d \in DOMAIN calls[c].remote : outbox_cache[d] >= calls[c].stream_id

\* C9, amended: after a successful enqueue at position P the inbox cache
\* holds, for every user of the local map, a marker at P or at a higher
\* position that another call recorded for that user, and so does the outbox
\* cache for every destination of the remote map (the marker is at P whenever
\* the key had no higher marker); markers are recorded only after the commit
\* and never by a call whose transaction failed.
C9_MarkersFollowCommit ==
    /\ []MarkedSince
    /\ [][/\ MarkersFollowCommit
          /\ \A c \in Enqueues : (calls[c].pc = "committed" /\ Resumes(c)) =>
                /\ \A u \in DOMAIN calls[c].local :
                      inbox_cache'[u] = Max({inbox_cache[u], calls[c].stream_id})
                /\ \A d \in DOMAIN calls[c].remote :
                      outbox_cache'[d] = Max({outbox_cache[d], calls[c].stream_id})]_vars

\* an enqueue has returned and one of its users and one of its destinations
\* carry the marker of a later call
C9_Witness ==
    \E c \in Enqueues :
        /\ calls[c].outcome = "returned"
        /\ \E u \in DOMAIN calls[c].local : inbox_cache[u] > calls[c].stream_id
        /\ \E d \in DOMAIN calls[c].remote : outbox_cache[d] > calls[c].stream_id

\* C10: when two add_messages_from_remote_to_device_inbox calls for one
\* (origin, message_id) overlap, the batch is applied at most once:
\* device_federation_inbox holds at most one record for it and device_inbox
\* holds rows of these calls at no more than one stream position.
C10_AtMostOnce ==
    \A o \in Origins, m \in MessageIds :
        /\ RecordCount(o, m) <= 1
        /\ Cardinality({calls[c].stream_id : c \in
               {x \in IngestsOf(o, m) : RowsAt(device_inbox, calls[x].stream_id) # {}}}) <= 1

\* two calls for one (origin, message_id) overlapped: the one that reserved
\* first ran its transaction after the other had inserted, and inserted nothing
C10_Witness ==
    \E a, b \in Ingests :
        /\ calls[a].origin = calls[b].origin /\ calls[a].message_id = calls[b].message_id
        /\ calls[b].stream_id < calls[a].stream_id
        /\ calls[a].inserted /\ RowsAt(device_inbox, calls[a].stream_id) # {}
        /\ calls[b].pc \in {"committed", "done"} /\ calls[b].outcome # "raised"
        /\ ~calls[b].inserted
        /\ Addressed(calls[b].local) \cap devices # {}
\* ------------------------------------------------------------------ reader properties
\* the reader holds the result of a per-device or per-destination read
PerEntity == rd.op \in {"device", "remote"} /\ ~rd.pending

\* C4: a read that reaches storage returns as new position the stream
\* position of its last row when it returns `limit` rows, and
\* current_position when it returns fewer; the same for both readers.
C4_NewPositionRule ==
    (PerEntity /\ ~rd.fast) =>
        /\ Len(rd.positions) <= rd.limit
        /\ Len(rd.messages) = Len(rd.positions)
        /\ Len(rd.positions) = rd.limit => rd.stream_pos = rd.positions[Len(rd.positions)]
        /\ Len(rd.positions) < rd.limit => rd.stream_pos = rd.current

\* a full page that ends below current_position
C4_Witness ==
    /\ rd.op = "device" /\ ~rd.fast
    /\ Len(rd.positions) = rd.limit /\ rd.stream_pos < rd.current

\* a full page of the per-destination reader that ends below current_position
C4_WitnessRemote ==
    /\ rd.op = "remote" /\ ~rd.fast
    /\ Len(rd.positions) = rd.limit /\ rd.stream_pos < rd.current

\* the chain of reads has come to current_position
ChainDone == PerEntity /\ rd.stream_pos = rd.current

\* the rows of a bag at the positions of the chain's window,
\* (initial_last, current_position]
InWindow(bag) ==
    LET Hit(x) == rd.init_last < x.stream_id /\ x.stream_id <= rd.current
    IN  Where(bag, Hit)

\* the window holds the rows it held when the chain began
WindowKept ==
    InWindow(IF rd.op = "device" THEN DeviceRows(rd.user_id, rd.device_id)
             ELSE DestinationRows(rd.destination)) = InWindow(rd.stored)

\* the payloads stored in the window, in each ascending order of their positions
StoredPayloads ==
    {[i \in 1..Len(s) |-> Loads(IF rd.op = "device" THEN s[i].message_json
                                ELSE s[i].messages_json)] :
        s \in OrderByStreamId(InWindow(rd.stored))}

\* C3 as stated: a chain of reads from initial_last to current_position
\* returns, in concatenation, the stored payloads of the entity in
\* (initial_last, current_position], in ascending order, each once; the store
\* is the one the chain began on.
C3_ChainReturnsWindow ==
    (ChainDone /\ WindowKept) => rd.acc \in StoredPayloads

\* C3, amended: the same, for a current_position that is at most the id
\* generator's current token when the chain begins.
C3_ChainReturnsVisibleWindow ==
    (ChainDone /\ WindowKept /\ rd.visible) => rd.acc \in StoredPayloads

\* a chain of two reads, a full page and then the rest, has returned two rows
C3_Witness ==
    /\ ChainDone /\ WindowKept /\ rd.visible
    /\ rd.reads >= 2 /\ Len(rd.acc) >= 2 /\ rd.init_last < rd.last

\* the step in which a call of get_all_new_device_messages gets its result
ReadsAll == rd' # rd /\ rd'.op = "all" /\ ~rd'.pending

\* how often a row of device_inbox is in the returned rows
Returned(rows, r) ==
    Cardinality({i \in 1..Len(rows) :
        rows[i] = <<r.stream_id, r.user_id, r.device_id, r.message_json>>})

\* the result is the rows of the `limit` smallest positions of the window
ExactPositions(res_rows, last_pos, current_pos, limit) ==
    LET P == {r.stream_id : r \in {x \in BagToSet(device_inbox) :
                  last_pos < x.stream_id /\ x.stream_id <= current_pos}}
        sel == {q \in P : Cardinality({x \in P : x < q}) < limit}
    IN  /\ \A i \in 1..Len(res_rows) - 1 : res_rows[i][1] <= res_rows[i + 1][1]
        /\ \A r \in BagToSet(device_inbox) :
              Returned(res_rows, r) = IF r.stream_id \in sel THEN CopiesIn(r, device_inbox) ELSE 0
        /\ Len(res_rows) = BagCardinality(
              [r \in {x \in BagToSet(device_inbox) : x.stream_id \in sel}
                  |-> CopiesIn(r, device_inbox)])

\* C6: get_all_new_device_messages returns exactly the device_inbox rows of
\* the `limit` smallest distinct positions in (last_pos, current_pos], in
\* ascending order, every selected position with all of its rows.
C6_ReadAllExact ==
    [][ReadsAll => /\ rd'.status = "ok"
                   /\ ExactPositions(rd'.rows, rd'.last, rd'.current, rd'.limit)]_vars

\* what C6 says holds of every call in which the second query runs
ReadAllExactWhenBound ==
    [][(ReadsAll /\ rd'.status = "ok") =>
          ExactPositions(rd'.rows, rd'.last, rd'.current, rd'.limit)]_vars

\* a call returned one position in full, more rows than `limit`, and left a
\* later position of the window for the next call
ReadAllSplitsNoPosition ==
    /\ rd.op = "all" /\ ~rd.pending /\ rd.status = "ok"
    /\ Len(rd.rows) > rd.limit
    /\ \E r \in BagToSet(device_inbox) :
          r.stream_id <= rd.current /\ r.stream_id > rd.rows[Len(rd.rows)][1]

\* ------------------------------------------------------------------ replays and empty batches
\* the step in which call c is made as a remote ingest
StartsIngest(c) == calls[c].kind = "none" /\ calls'[c].kind = "ingest"

\* a remote ingest whose transaction found its (origin, message_id) recorded
Replays == {c \in Ingests : calls[c].pc \in {"committed", "done"}
                            /\ calls[c].outcome # "raised" /\ ~calls[c].inserted}

\* C11 as stated: a remote-ingest call whose (origin, message_id) is already
\* recorded reserves no stream position, leaves the allocator's current
\* position as it was and records no change marker for a user of its batch.
C11_ReplayReservesNothing ==
    [][\A c \in CallIds :
          /\ (StartsIngest(c) /\ RecordCount(calls'[c].origin, calls'[c].message_id) > 0)
                => id_gen' = id_gen
          /\ (c \in Replays /\ Resumes(c)) => caches' = caches]_vars

\* C11, in one step of a call whose (origin, message_id) is recorded: the call
\* reserves the next stream position, its transaction writes no row, and as it
\* resumes it marks every user of its batch at its position and releases it.
ReplayStep(c) ==
    /\ (StartsIngest(c) /\ RecordCount(calls'[c].origin, calls'[c].message_id) > 0) =>
          /\ calls'[c].stream_id = id_gen_current + 1
          /\ id_gen_current' = id_gen_current + 1
          /\ id_gen_unfinished' = id_gen_unfinished \cup {id_gen_current + 1}
          /\ tables' = tables /\ caches' = caches
    /\ (c \in Ingests /\ TxnEnds(c)
        /\ RecordCount(calls[c].origin, calls[c].message_id) > 0) =>
          /\ ~calls'[c].inserted
          /\ tables' = tables /\ caches' = caches /\ id_gen' = id_gen
    /\ (c \in Replays /\ Resumes(c)) =>
          /\ calls'[c].outcome = "returned"
          /\ tables' = tables
          /\ inbox_cache' = [u \in Users |->
                IF u \in DOMAIN calls[c].local
                THEN Max({inbox_cache[u], calls[c].stream_id}) ELSE inbox_cache[u]]
          /\ outbox_cache' = outbox_cache
          /\ id_gen_current' = id_gen_current
          /\ id_gen_unfinished' = id_gen_unfinished \ {calls[c].stream_id}

\* C11, in every state: a replay has a stream position of its own, above the
\* position of the call that applied the batch or beside it, with no row.
ReplayState ==
    \A c \in Replays :
        /\ calls[c].stream_id \in 1..id_gen_current
        /\ \A b \in CallIds : (b # c /\ calls[b].kind # "none") =>
              calls[b].stream_id # calls[c].stream_id
        /\ RowsAt(device_inbox, calls[c].stream_id) = {}
        /\ RowsAt(device_federation_outbox, calls[c].stream_id) = {}
        /\ calls[c].outcome = "returned" =>
              \A u \in DOMAIN calls[c].local : inbox_cache[u] >= calls[c].stream_id

\* C11, amended: a remote-ingest call whose (origin, message_id) is already
\* recorded writes no row into any table; it still reserves one fresh stream
\* position, which advances the allocator's highest allocated position by one
\* and is released when the call returns, and it records a change marker at
\* that position for every user of the replayed batch.
C11_ReplayWritesNoRow ==
    /\ []ReplayState
    /\ [][\A c \in CallIds : ReplayStep(c)]_vars

\* a replay made after its (origin, message_id) was recorded has returned: it
\* took a position above the first delivery's and left its marker there
C11_Witness ==
    \E a \in Ingests, b \in Replays :
        /\ calls[a].origin = calls[b].origin /\ calls[a].message_id = calls[b].message_id
        /\ calls[a].outcome = "returned" /\ calls[a].inserted
        /\ calls[b].outcome = "returned"
        /\ calls[a].stream_id < calls[b].stream_id
        /\ id_gen_current = calls[b].stream_id
        /\ \E u \in DOMAIN calls[b].local : inbox_cache[u] = calls[b].stream_id

\* the step in which call c is made as an enqueue
StartsEnqueue(c) == calls[c].kind = "none" /\ calls'[c].kind = "enqueue"

\* an enqueue of an empty local map and an empty remote map
EmptyBatch(c) ==
    c \in Enqueues /\ DOMAIN calls[c].local = {} /\ DOMAIN calls[c].remote = {}

\* C12, in one step of an empty enqueue: the call takes the next stream
\* position, its transaction and its resumption write no row and no marker
\* and take no further position, and a committed transaction ends in a return.
EmptyBatchStep(c) ==
    /\ (StartsEnqueue(c) /\ DOMAIN calls'[c].local = {} /\ DOMAIN calls'[c].remote = {}) =>
          /\ id_gen_current' = id_gen_current + 1
          /\ calls'[c].stream_id = id_gen_current + 1
          /\ tables' = tables /\ caches' = caches
    /\ (EmptyBatch(c) /\ calls'[c] # calls[c]) =>
          /\ tables' = tables /\ caches' = caches
          /\ id_gen_current' = id_gen_current
          /\ (TxnEnds(c) => id_gen_unfinished' = id_gen_unfinished)
          /\ (calls[c].pc = "committed" => calls'[c].outcome = "returned")

\* C12, in every state: an empty enqueue has no row at its position, and it
\* raises only when its transaction failed.
EmptyBatchState ==
    \A c \in CallIds : EmptyBatch(c) =>
        /\ calls[c].stream_id \in 1..id_gen_current
        /\ RowsAt(device_inbox, calls[c].stream_id) = {}
        /\ RowsAt(device_federation_outbox, calls[c].stream_id) = {}
        /\ calls[c].outcome = "raised" => ~calls[c].inserted
        /\ calls[c].outcome = "returned" => calls[c].inserted

\* C12: add_messages_to_device_inbox with an empty local map and an empty
\* remote map raises no error, inserts no row into device_inbox or
\* device_federation_outbox, records no change marker, and allocates exactly
\* one stream position.
C12_EmptyBatch ==
    /\ []EmptyBatchState
    /\ [][\A c \in CallIds : EmptyBatchStep(c)]_vars

\* an empty enqueue has returned as the only call so far: one position is
\* allocated, the tables are empty and no marker is recorded
C12_Witness ==
    \E c \in CallIds :
        /\ EmptyBatch(c) /\ calls[c].outcome = "returned"
        /\ id_gen_current = 1 /\ calls[c].stream_id = 1 /\ id_gen_unfinished = {}
        /\ device_inbox = EmptyBag /\ device_federation_outbox = EmptyBag
        /\ \A u \in Users : inbox_cache[u] = 0
        /\ \A d \in Destinations : outbox_cache[d] = 0

\* ------------------------------------------------------------------ remote ingest and the outbox
\* a step of a remote-ingest call: it is made, its transaction ends, or it resumes
IngestStep(c) == calls'[c] # calls[c] /\ calls'[c].kind = "ingest"

\* C13: no step of an add_messages_from_remote_to_device_inbox call, fresh or
\* duplicate, successful or failed, changes device_federation_outbox or the
\* outbox change cache.
C13_IngestLeavesOutbox ==
    [][\A c \in CallIds : IngestStep(c) =>
          /\ device_federation_outbox' = device_federation_outbox
          /\ outbox_cache' = outbox_cache]_vars

\* a fresh remote ingest has returned next to an enqueue that queued for two
\* destinations: the outbox holds the enqueue's rows and markers and no other
C13_Witness ==
    \E a \in Ingests, e \in Enqueues :
        /\ calls[a].outcome = "returned" /\ calls[a].inserted
        /\ calls[e].outcome = "returned" /\ calls[e].stream_id < calls[a].stream_id
        /\ Cardinality(DOMAIN calls[e].remote) = 2
        /\ \A r \in BagToSet(device_federation_outbox) : r.stream_id = calls[e].stream_id
        /\ \A d \in Destinations : outbox_cache[d] = calls[e].stream_id
        /\ RowsAt(device_inbox, calls[a].stream_id) # {}

\* ------------------------------------------------------------------ one position per batch
\* C15, in one transaction step: every row the transaction of call c adds, to
\* either table, is at the position reserved for c.
OnePositionStep(c) ==
    TxnEnds(c) => \A r \in AddedInbox \cup AddedOutbox : r.stream_id = calls[c].stream_id

\* the calls that have been made
Made == {c \in CallIds : calls[c].kind # "none"}

\* C15, in every state: the calls have positions of their own, and every
\* stored row is at the position of the one call that inserted it.
OwnPositions ==
    /\ \A a, b \in Made : a # b => calls[a].stream_id # calls[b].stream_id
    /\ \A r \in BagToSet(device_inbox) \cup BagToSet(device_federation_outbox) :
          Cardinality({c \in Made : calls[c].inserted /\ calls[c].stream_id = r.stream_id}) = 1
    /\ \A r \in BagToSet(device_inbox) :
          \E c \in Made : /\ calls[c].stream_id = r.stream_id
                          /\ <<r.user_id, r.device_id>> \in Addressed(calls[c].local)
                          /\ Loads(r.message_json) = calls[c].local[r.user_id][r.device_id]
    /\ \A r \in BagToSet(device_federation_outbox) :
          \E c \in Enqueues : /\ calls[c].stream_id = r.stream_id
                              /\ r.destination \in DOMAIN calls[c].remote
                              /\ Loads(r.messages_json) = calls[c].remote[r.destination]

\* C15: all rows written by one enqueue or remote-ingest call, in device_inbox
\* and device_federation_outbox together, carry the same stream position, and
\* no two calls write rows at the same stream position, however they interleave.
C15_OnePositionPerBatch ==
    /\ []OwnPositions
    /\ [][\A c \in CallIds : OnePositionStep(c)]_vars

\* two overlapping calls have both committed, the later one first: one fanned
\* out to three devices and two destinations at one position, the other wrote
\* at another
C15_Witness ==
    \E a, b \in Made :
        /\ calls[a].stream_id < calls[b].stream_id
        /\ calls[a].pc = "committed" /\ calls[b].outcome = "returned"
        /\ Cardinality(RowsAt(device_inbox, calls[a].stream_id)) >= 3
        /\ Cardinality(RowsAt(device_federation_outbox, calls[a].stream_id)) = 2
        /\ RowsAt(device_inbox, calls[b].stream_id) # {}

\* ------------------------------------------------------------------ trims
\* the step is a trim: rd holds its arguments afterwards
TrimsDevice == calls' = calls /\ rd'.op = "trim_device"
TrimsRemote == calls' = calls /\ rd'.op = "trim_remote"

\* C14 for delete_messages_for_device(user, device, P): of device_inbox
\* exactly the rows of (user, device) at positions <= P go, and nothing else
\* changes.
DeviceTrimExact ==
    TrimsDevice =>
        /\ \A r \in BagToSet(device_inbox) \cup BagToSet(device_inbox') :
              CopiesIn(r, device_inbox') =
                  IF /\ r.user_id = rd'.user_id /\ r.device_id = rd'.device_id
                     /\ r.stream_id <= rd'.current
                  THEN 0 ELSE CopiesIn(r, device_inbox)
        /\ device_federation_outbox' = device_federation_outbox
        /\ device_federation_inbox' = device_federation_inbox
        /\ caches' = caches /\ id_gen' = id_gen /\ devices' = devices

\* C14 for delete_device_msgs_for_remote(destination, P)
RemoteTrimExact ==
    TrimsRemote =>
        /\ \A r \in BagToSet(device_federation_outbox) \cup BagToSet(device_federation_outbox') :
              CopiesIn(r, device_federation_outbox') =
                  IF r.destination = rd'.destination /\ r.stream_id <= rd'.current
                  THEN 0 ELSE CopiesIn(r, device_federation_outbox)
        /\ device_inbox' = device_inbox
        /\ device_federation_inbox' = device_federation_inbox
        /\ caches' = caches /\ id_gen' = id_gen /\ devices' = devices

\* C14: delete_messages_for_device(user, device, P) removes exactly the
\* device_inbox rows of (user, device) at positions <= P and
\* delete_device_msgs_for_remote(destination, P) exactly the
\* device_federation_outbox rows of the destination at positions <= P; later
\* rows of the entity, rows of other entities, the other tables, the change
\* caches and the stream position stay as they are, with writers in flight.
C14_TrimExact == [][DeviceTrimExact /\ RemoteTrimExact]_vars

\* a device's queue was trimmed up to position 1 and a call at position 2 is
\* in flight: the device's row at 1 is gone, its row at 2 and the row of the
\* user's other device at 1 are stored
C14_Witness ==
    /\ rd.op = "trim_device" /\ rd.current = 1
    /\ \E c \in Made : /\ calls[c].stream_id = 1 /\ calls[c].inserted
                       /\ <<rd.user_id, rd.device_id>> \in Addressed(calls[c].local)
    /\ InboxCount(device_inbox, <<rd.user_id, rd.device_id>>, 1) = 0
    /\ InboxCount(device_inbox, <<rd.user_id, rd.device_id>>, 2) = 1
    /\ \E r \in RowsAt(device_inbox, 1) : r.user_id = rd.user_id /\ r.device_id # rd.device_id
    /\ \E c \in Made : calls[c].stream_id = 2 /\ calls[c].pc = "committed"
    /\ device_federation_inbox # EmptyBag

\* ------------------------------------------------------------------ one row per entity and position
\* C20: device_inbox holds at most one row per (user, device, stream position)
\* and device_federation_outbox at most one row per (destination, stream
\* position), after any interleaving of enqueue, remote-ingest and trim calls.
C20_OneRowPerEntityPosition ==
    /\ \A ud \in Users \X DeviceIds, p \in Positions : InboxCount(device_inbox, ud, p) <= 1
    /\ \A d \in Destinations, p \in Positions : OutboxCount(device_federation_outbox, d, p) <= 1

\* one device has a row at each of two positions, from two calls that
\* overlapped, after a trim of a destination's queue
C20_Witness ==
    /\ \E ud \in Users \X DeviceIds :
          InboxCount(device_inbox, ud, 1) = 1 /\ InboxCount(device_inbox, ud, 2) = 1
    /\ \E a, b \in Made : /\ calls[a].stream_id = 1 /\ calls[b].stream_id = 2
                          /\ calls[b].outcome = "returned" /\ calls[a].pc = "committed"
    /\ rd.op = "trim_remote" /\ rd.current >= 1
    /\ \E c \in Enqueues : calls[c].inserted /\ rd.destination \in DOMAIN calls[c].remote

\* ------------------------------------------------------------------ fast path and progress
\* the step is a per-device or per-destination read that took the fast path
FastRead == rd' # rd /\ rd'.op \in {"device", "remote"} /\ ~rd'.pending /\ rd'.fast

\* the rows of the read's entity in (last_position, current_position] as the
\* read returns
ReadWindow ==
    IF rd'.op = "device"
    THEN {r \in BagToSet(device_inbox') :
            /\ r.user_id = rd'.user_id /\ r.device_id = rd'.device_id
            /\ rd'.last < r.stream_id /\ r.stream_id <= rd'.current}
    ELSE {r \in BagToSet(device_federation_outbox') :
            /\ r.destination = rd'.destination
            /\ rd'.last < r.stream_id /\ r.stream_id <= rd'.current}

\* C16: a per-device or per-destination read called with current_position at
\* most the allocator's current position that takes the change-cache fast
\* path finds storage without a row of the entity in (last_position,
\* current_position], so ([], current_position) is what the query would have
\* returned, in every interleaving with the writers.
C16_FastPathSound ==
    [][(FastRead /\ rd'.current <= get_current_token) =>
          /\ ReadWindow = {}
          /\ rd'.messages = <<>> /\ rd'.stream_pos = rd'.current]_vars

\* a per-device read of the visible window (0, 1] took the fast path after the
\* call at position 1 had failed, while the call at position 2 is in flight
\* with a row of the device already stored
C16_Witness ==
    /\ rd.op = "device" /\ rd.fast /\ rd.last = 0 /\ rd.current = 1
    /\ get_current_token = 1
    /\ \E c \in Made : /\ calls[c].stream_id = 2 /\ calls[c].pc = "committed"
                       /\ InboxCount(device_inbox, <<rd.user_id, rd.device_id>>, 2) = 1

\* C17, in every state that holds a read's result: a read with last_position <
\* current_position returns rows above last_position and a new position above
\* last_position and at most current_position, so a chain from initial_last
\* has made at most current_position - initial_last reads.
C17_DrainProgress ==
    (PerEntity /\ rd.last < rd.current) =>
        /\ rd.last < rd.stream_pos /\ rd.stream_pos <= rd.current
        /\ \A i \in 1..Len(rd.positions) :
              rd.last < rd.positions[i] /\ rd.positions[i] <= rd.stream_pos
        /\ rd.reads <= rd.current - rd.init_last
        /\ (rd.reads = rd.current - rd.init_last => rd.stream_pos = rd.current)

\* a chain over (0, 2] with limit 1 has come to current_position with its
\* second read, after a full page that ended at position 1
C17_Witness ==
    /\ PerEntity /\ ~rd.fast /\ rd.limit = 1
    /\ rd.init_last = 0 /\ rd.last = 1 /\ rd.current = 2
    /\ rd.reads = 2 /\ rd.stream_pos = 2 /\ Len(rd.acc) = 2

\* ------------------------------------------------------------------ release of reservations
\* no call is in flight
Quiet == \A c \in CallIds : calls[c].pc \in {"idle", "done"}

\* C18, in every state: a call that failed has no row at its position, and
\* with no call in flight every reservation is released and the current token
\* is the highest position handed out.
ReleasedWhenQuiet ==
    /\ \A c \in Made : (calls[c].pc = "failed" \/ calls[c].outcome = "raised") =>
          /\ RowsAt(device_inbox, calls[c].stream_id) = {}
          /\ RowsAt(device_federation_outbox, calls[c].stream_id) = {}
    /\ \A c \in Made : calls[c].pc = "done" => calls[c].stream_id \notin id_gen_unfinished
    /\ Quiet => id_gen_unfinished = {} /\ get_current_token = id_gen_current

\* C18: every stream position reserved by an enqueue or remote-ingest call is
\* released in the end, whether the call's transaction committed or failed; a
\* failed call writes nothing at its position, with no call in flight the
\* current token is the highest position handed out, and every position that
\* holds committed rows becomes visible in the end.
C18_ReservationReleased ==
    /\ []ReleasedWhenQuiet
    /\ \A p \in 1..MaxCalls : (p \in id_gen_unfinished) ~> (p \notin id_gen_unfinished)
    /\ \A p \in 1..MaxCalls :
          (RowsAt(device_inbox, p) # {} \/ RowsAt(device_federation_outbox, p) # {})
              ~> (get_current_token >= p)

\* the call at position 1 failed and raised, the call at position 2 committed
\* and returned: both positions are released and position 2 is visible
C18_Witness ==
    /\ Quiet /\ id_gen_current = 2 /\ id_gen_unfinished = {} /\ get_current_token = 2
    /\ \E a, b \in Made :
          /\ calls[a].stream_id = 1 /\ calls[a].outcome = "raised"
          /\ calls[b].stream_id = 2 /\ calls[b].outcome = "returned"
          /\ RowsAt(device_inbox, 2) # {}
    /\ RowsAt(device_inbox, 1) = {}

\* ------------------------------------------------------------------ read, then trim
\* the step is a trim by the client
ClientTrims ==
    /\ rd.op \in {"client_device", "client_remote"} /\ calls' = calls
    /\ (device_inbox' # device_inbox \/ device_federation_outbox' # device_federation_outbox)

\* C19: when a client trims only up to positions its own chain of reads has
\* returned, each read called with the current token as current_position,
\* every row a trim deletes above the starting cursor was returned by one of
\* the earlier reads, in every interleaving with the writers.
C19_TrimDeletesDelivered ==
    [][ClientTrims =>
          /\ \A r \in BagToSet(device_inbox (-) device_inbox') :
                r.stream_id > rd.start =>
                    /\ rd.op = "client_device"
                    /\ <<r.stream_id, Loads(r.message_json)>> \in rd.delivered
          /\ \A r \in BagToSet(device_federation_outbox (-) device_federation_outbox') :
                r.stream_id > rd.start =>
                    /\ rd.op = "client_remote"
                    /\ <<r.stream_id, Loads(r.messages_json)>> \in rd.delivered]_vars

\* a client that began at 0 was delivered the message at position 1 and has
\* trimmed it, while the call at position 2 is in flight with a row of the
\* device stored and not yet visible
C19_Witness ==
    /\ rd.op = "client_device" /\ rd.start = 0 /\ rd.cursor = 1 /\ rd.trims = 1
    /\ \E m \in rd.delivered : m[1] = 1
    /\ \E c \in Made : /\ calls[c].stream_id = 1 /\ calls[c].inserted
                       /\ <<rd.user_id, rd.device_id>> \in Addressed(calls[c].local)
    /\ InboxCount(device_inbox, <<rd.user_id, rd.device_id>>, 1) = 0
    /\ InboxCount(device_inbox, <<rd.user_id, rd.device_id>>, 2) = 1
    /\ \E c \in Made : calls[c].stream_id = 2 /\ calls[c].pc = "committed"
====
